---- MODULE Spec2Model ----
(***************************************************************************)
(* Model of the player worker of ncspot (src/spotify_worker.rs).           *)
(*                                                                         *)
(* The worker is one task running Worker::run_loop: at the top of every    *)
(* iteration it polls the session for invalidation, then waits in one      *)
(* tokio::select! on four sources (command stream, player-event stream,    *)
(* 400 ms interval, token task) and runs the handler of the branch that    *)
(* the select picked.  select! without `biased;` picks any ready branch.   *)
(*                                                                         *)
(* The collaborators (librespot Session / Player / Mixer, the EventManager *)
(* and the two channels' senders) are the environment: the model records   *)
(* every call the worker makes on them and lets them act whenever the      *)
(* worker is suspended in the select!.                                     *)
(***************************************************************************)
EXTENDS Integers, Sequences, FiniteSets, TLC

(***************************************************************************)
(* Bounds of the model.                                                    *)
(***************************************************************************)
\* Messages that may sit in the two channels together.
MaxQueue == 1
\* RequestToken commands (oneshot reply channels) the controller creates.
MaxReq == 1
\* The same two bounds for the environment of SpecDeep, which sends fewer
\* kinds of message but lets more of them queue up.
DeepQueue == 2
DeepReq == 2

(***************************************************************************)
(* Input domains.                                                          *)
(***************************************************************************)
\* A u32 is written as two 16-bit limbs, hi * 65536 + lo, so that the whole
\* range up to u32::MAX can be written down.
U32(n) == [hi |-> n \div 65536, lo |-> n % 65536]
U32Max == [hi |-> 65535, lo |-> 65535]
\* position_ms / seek positions (u32 milliseconds).
Positions == {U32(0), U32(2500)}
\* Values SystemTime::now() may return, as time since the epoch.
Times == {[secs |-> 1700000000, nanos |-> 200000000],
          [secs |-> 1700000003, nanos |-> 900000000]}
NoTime == [secs |-> 0, nanos |-> 0]
\* Positions and clock values at the ends of their ranges: 0, 2^31, u32::MAX
\* milliseconds; the epoch, u32::MAX milliseconds after it, and a present-day
\* clock.
ClockPositions == {U32(0), U32(2500), [hi |-> 32768, lo |-> 0], U32Max}
ClockTimes == {[secs |-> 0, nanos |-> 0],
               [secs |-> 4294967, nanos |-> 295000000],
               [secs |-> 1700000000, nanos |-> 200000000]}
\* URIs of the Playables the controller sends.
Uris == {"spotify:track:A", "spotify:bogus:B", "garbage"}
Volumes == {40000}

\* WorkerCommand values other than RequestToken (which carries a fresh sender).
PlainCommands ==
    {[kind |-> "Load", uri |-> "spotify:track:A", start |-> TRUE, pos |-> U32(2500)],
     [kind |-> "Load", uri |-> "spotify:track:A", start |-> FALSE, pos |-> U32(0)],
     [kind |-> "Load", uri |-> "spotify:bogus:B", start |-> TRUE, pos |-> U32(0)],
     [kind |-> "Load", uri |-> "garbage", start |-> TRUE, pos |-> U32(2500)]}
    \cup {[kind |-> k] : k \in {"Play", "Pause", "Stop", "Shutdown"}}
    \cup {[kind |-> "Seek", pos |-> p] : p \in {U32(2500)}}
    \cup {[kind |-> "SetVolume", volume |-> v] : v \in Volumes}
    \cup {[kind |-> "Preload", uri |-> u] : u \in Uris}

\* LibrespotPlayerEvent kinds the worker ignores.
IgnoredKinds ==
    {"Loading", "Preloading", "Unavailable", "VolumeChanged", "TrackChanged",
     "SessionConnected", "SessionDisconnected", "SessionClientChanged",
     "ShuffleChanged", "RepeatChanged", "AutoPlayChanged",
     "FilterExplicitContentChanged"}

\* LibrespotPlayerEvent values the player sends.
PlayerEvents ==
    {[kind |-> k, pos |-> p] : k \in {"Playing", "Seeked"}, p \in Positions}
    \cup {[kind |-> k, pos |-> U32(2500)] : k \in {"PositionCorrection", "Paused"}}
    \cup {[kind |-> k] : k \in {"Stopped", "EndOfTrack", "TimeToPreloadNextTrack"}}
    \cup {[kind |-> k] : k \in {"Loading"}}

\* The messages the environment of SpecDeep sends.
DeepCommands ==
    {[kind |-> "Play"],
     [kind |-> "Load", uri |-> "garbage", start |-> TRUE, pos |-> U32(2500)]}
DeepEvents ==
    {[kind |-> "Playing", pos |-> U32(2500)], [kind |-> "Seeked", pos |-> U32(0)],
     [kind |-> "Paused", pos |-> U32(2500)]}
\* The messages the environment of the fair specification sends.
FairCommands == {[kind |-> "Pause"]}
FairEvents == {[kind |-> "Playing", pos |-> U32(2500)], [kind |-> "EndOfTrack"]}
\* The player events of the specification that explores the clock arithmetic.
ClockEvents == {[kind |-> "Playing", pos |-> p] : p \in ClockPositions}

NoneMsg == [kind |-> "None"]

(***************************************************************************)
(* State.                                                                  *)
(***************************************************************************)
VARIABLES
    pc,         \* where the worker is: new, top, select, done, panicked, dropped
    active,     \* Worker.active
    tokenTask,  \* Worker.token_task: [req |-> 0] is future::pending()
    cmdQ,       \* Worker.commands: messages in the command channel
    cmdOpen,    \* some command sender is still alive
    evQ,        \* Worker.player_events: messages in the player-event channel
    evOpen,     \* the player-event sender is still alive
    session,    \* Worker.session: [invalid, shutdown]
    tickReady,  \* ui_refresh: the interval has a tick to deliver
    nextReq,    \* reply channels created so far
    reply,      \* per reply channel: what its receiver got
    last,       \* the input the worker's last step dispatched
    emitted,    \* Events the last step sent through Worker.events
    triggers,   \* events.trigger() calls of the last step
    calls,      \* Player / Mixer / Session calls of the last step
    superseded  \* history: requests whose task was replaced before it finished

vars == <<pc, active, tokenTask, cmdQ, cmdOpen, evQ, evOpen, session, tickReady,
          nextReq, reply, last, emitted, triggers, calls,
          superseded>>

envVars == <<cmdQ, cmdOpen, evQ, evOpen, session, tickReady, nextReq, reply>>

(***************************************************************************)
(* Pure helpers.                                                           *)
(***************************************************************************)
\* Duration::from_millis(position_ms as u64)
\* secs = millis / 1000, nanos = (millis % 1000) * 1_000_000, by long division
\* over the two limbs.
DurationFromMillis(ms) ==
    LET top == ms.hi \div 1000
        rest == (ms.hi % 1000) * 65536 + ms.lo
    IN [secs |-> top * 65536 + rest \div 1000, nanos |-> (rest % 1000) * 1000000]

\* SystemTime - Duration
SubTime(t, d) ==
    IF t.nanos >= d.nanos
    THEN [secs |-> t.secs - d.secs, nanos |-> t.nanos - d.nanos]
    ELSE [secs |-> t.secs - d.secs - 1, nanos |-> t.nanos + 1000000000 - d.nanos]

\* SpotifyId::from_uri(&playable.uri())
FromUri(uri) ==
    CASE uri = "spotify:track:A" ->
            [ok |-> TRUE, id |-> [item_type |-> "Track", id |-> "A"]]
      [] uri = "spotify:bogus:B" ->
            [ok |-> TRUE, id |-> [item_type |-> "Unknown", id |-> "B"]]
      [] OTHER -> [ok |-> FALSE]

PlayerEv(e) == [bus |-> "Player", ev |-> e]
QueueEv(e) == [bus |-> "Queue", ev |-> e]

\* future::pending()
Pending == [req |-> 0]

\* Worker::get_token(sender): the boxed future, not yet resolved.
GetToken(r) == [req |-> r, fetch |-> "running"]


(***************************************************************************)
(* Handlers of the select! branches, as functions of the dispatched input. *)
(***************************************************************************)
\* Mutant: the item_type check is missing, every parsed id is loaded.
LoadEffectNoTypeCheck(cmd) ==
    LET parsed == FromUri(cmd.uri) IN
    IF parsed.ok
    THEN [calls |-> <<[op |-> "load", id |-> parsed.id,
                       start |-> cmd.start, pos |-> cmd.pos]>>,
          emitted |-> <<>>]
    ELSE [calls |-> <<>>, emitted |-> <<PlayerEv([kind |-> "FinishedTrack"])>>]

\* Some(WorkerCommand::Load(playable, start_playing, position_ms))
LoadEffect(cmd) ==
    LET parsed == FromUri(cmd.uri) IN
    IF parsed.ok
    THEN IF parsed.id.item_type = "Unknown"
         THEN [calls |-> <<>>, emitted |-> <<PlayerEv([kind |-> "FinishedTrack"])>>]
         ELSE [calls |-> <<[op |-> "load", id |-> parsed.id,
                            start |-> cmd.start, pos |-> cmd.pos]>>,
               emitted |-> <<>>]
    ELSE [calls |-> <<>>, emitted |-> <<PlayerEv([kind |-> "FinishedTrack"])>>]

\* Mutant: a Preload that cannot be parsed is reported like a failed Load.
PreloadEffectReportsFailure(cmd) ==
    LET parsed == FromUri(cmd.uri) IN
    IF parsed.ok
    THEN [calls |-> <<[op |-> "preload", id |-> parsed.id]>>, emitted |-> <<>>]
    ELSE [calls |-> <<>>, emitted |-> <<PlayerEv([kind |-> "FinishedTrack"])>>]

\* Some(WorkerCommand::Preload(playable))
PreloadEffect(cmd) ==
    LET parsed == FromUri(cmd.uri) IN
    IF parsed.ok
    THEN [calls |-> <<[op |-> "preload", id |-> parsed.id]>>, emitted |-> <<>>]
    ELSE [calls |-> <<>>, emitted |-> <<>>]

\* Mutant: Shutdown only tears the session down, playback is not stopped.
ShutdownEffectNoStop ==
    [calls |-> <<[op |-> "session.shutdown"]>>, emitted |-> <<>>]

\* Some(WorkerCommand::Shutdown)
ShutdownEffect ==
    [calls |-> <<[op |-> "stop"], [op |-> "session.shutdown"]>>, emitted |-> <<>>]

\* match cmd { ... }: the calls and events of one command (None included).
CommandEffect(cmd) ==
    CASE cmd.kind = "Load" -> LoadEffect(cmd)
      [] cmd.kind = "Play" -> [calls |-> <<[op |-> "play"]>>, emitted |-> <<>>]
      [] cmd.kind = "Pause" -> [calls |-> <<[op |-> "pause"]>>, emitted |-> <<>>]
      [] cmd.kind = "Stop" -> [calls |-> <<[op |-> "stop"]>>, emitted |-> <<>>]
      [] cmd.kind = "Seek" ->
            [calls |-> <<[op |-> "seek", pos |-> cmd.pos]>>, emitted |-> <<>>]
      [] cmd.kind = "SetVolume" ->
            [calls |-> <<[op |-> "mixer.set_volume", volume |-> cmd.volume]>>,
             emitted |-> <<>>]
      [] cmd.kind = "RequestToken" -> [calls |-> <<>>, emitted |-> <<>>]
      [] cmd.kind = "Preload" -> PreloadEffect(cmd)
      [] cmd.kind = "Shutdown" -> ShutdownEffect
      [] cmd.kind = "None" -> [calls |-> <<>>, emitted |-> <<>>]

\* Mutant: a RequestToken arriving while a fetch is in flight is dropped.
CommandTokenTaskKeepsFirst(cmd, task) ==
    IF cmd.kind = "RequestToken" /\ task.req = 0 THEN GetToken(cmd.req) ELSE task

\* Mutant: every command other than RequestToken discards the fetch in flight.
CommandTokenTaskResets(cmd, task) ==
    IF cmd.kind = "RequestToken" THEN GetToken(cmd.req) ELSE Pending

\* The token_task slot after one command: RequestToken assigns it, no other
\* arm touches it.
CommandTokenTask(cmd, task) ==
    IF cmd.kind = "RequestToken" THEN GetToken(cmd.req) ELSE task

\* Mutant: a Pause command clears the flag without waiting for the player.
CommandActivePauseClears(cmd, act) ==
    IF cmd.kind = "Pause" THEN FALSE ELSE act

\* Worker.active after one command: no arm of the command match assigns it.
CommandActive(cmd, act) == act

\* Mutant: the worker gives up when the command channel is exhausted.
CommandExitOnNone(cmd) == cmd.kind = "None"

\* Whether the command arm breaks out of the loop: none does.
CommandExit(cmd) == FALSE

\* The arms of the player-event match that read SystemTime::now().
ReadsClock(e, act) ==
    \/ e.kind = "Playing"
    \/ e.kind \in {"Seeked", "PositionCorrection"} /\ act

\* Mutant: the position is narrowed to its low 16 bits before the subtraction.
PlayingEffectNarrow(e, now) ==
    LET position == DurationFromMillis([hi |-> 0, lo |-> e.pos.lo]) IN
    [emitted |-> <<PlayerEv([kind |-> "Playing", start |-> SubTime(now, position)])>>,
     active |-> TRUE, exit |-> FALSE]

\* Some(LibrespotPlayerEvent::Playing { position_ms, .. })
PlayingEffect(e, now) ==
    LET position == DurationFromMillis(e.pos) IN
    [emitted |-> <<PlayerEv([kind |-> "Playing", start |-> SubTime(now, position)])>>,
     active |-> TRUE, exit |-> FALSE]

\* Mutant: a seek is handled like Playing, it always resumes the clock.
SeekedEffectResumes(e, act, now) ==
    [emitted |-> <<PlayerEv([kind |-> "Playing",
                             start |-> SubTime(now, DurationFromMillis(e.pos))])>>,
     active |-> TRUE, exit |-> FALSE]

\* Some(LibrespotPlayerEvent::Seeked{..}) | Some(PositionCorrection{..})
SeekedEffect(e, act, now) ==
    LET position == DurationFromMillis(e.pos) IN
    IF act
    THEN [emitted |-> <<PlayerEv([kind |-> "Playing", start |-> SubTime(now, position)])>>,
          active |-> act, exit |-> FALSE]
    ELSE [emitted |-> <<PlayerEv([kind |-> "Paused", pos |-> position])>>,
          active |-> act, exit |-> FALSE]

\* Mutant: Stopped is forwarded but the flag is left as it was.
StoppedEffectKeepsActive(act) ==
    [emitted |-> <<PlayerEv([kind |-> "Stopped"])>>, active |-> act, exit |-> FALSE]

\* Some(LibrespotPlayerEvent::Stopped { .. })
StoppedEffect(act) ==
    [emitted |-> <<PlayerEv([kind |-> "Stopped"])>>, active |-> FALSE, exit |-> FALSE]

\* Mutant: the exhausted event channel is only logged, the loop goes on.
ExhaustedEffectContinues(act) ==
    [emitted |-> <<>>, active |-> act, exit |-> FALSE]

\* Mutant: the exhausted event channel is reported as a stop of playback.
ExhaustedEffectReportsStopped(act) ==
    [emitted |-> <<PlayerEv([kind |-> "Stopped"])>>, active |-> FALSE, exit |-> TRUE]

\* None => { warn!(..); break }
ExhaustedEffect(act) ==
    [emitted |-> <<>>, active |-> act, exit |-> TRUE]

\* match event { ... }: the events sent, the new active flag, and whether the
\* arm breaks out of the loop.
EventEffect(e, act, now) ==
    CASE e.kind = "Playing" -> PlayingEffect(e, now)
      [] e.kind \in {"Seeked", "PositionCorrection"} -> SeekedEffect(e, act, now)
      [] e.kind = "Paused" ->
            [emitted |-> <<PlayerEv([kind |-> "Paused", pos |-> DurationFromMillis(e.pos)])>>,
             active |-> FALSE, exit |-> FALSE]
      [] e.kind = "Stopped" -> StoppedEffect(act)
      [] e.kind = "EndOfTrack" ->
            [emitted |-> <<PlayerEv([kind |-> "FinishedTrack"])>>,
             active |-> act, exit |-> FALSE]
      [] e.kind = "TimeToPreloadNextTrack" ->
            [emitted |-> <<QueueEv([kind |-> "PreloadTrackRequest"])>>,
             active |-> act, exit |-> FALSE]
      [] e.kind \in IgnoredKinds -> [emitted |-> <<>>, active |-> act, exit |-> FALSE]
      [] e.kind = "None" -> ExhaustedEffect(act)

\* Mutant: the refresh is triggered on every tick.
TickTriggersAlways(act) == 1

\* _ = ui_refresh.tick() => if self.active { self.events.trigger() }
TickTriggers(act) == IF act THEN 1 ELSE 0

\* .map(move |result| result.ok())
ResultOk(fetch) == IF fetch = "Ok" THEN "Some" ELSE "None"

(***************************************************************************)
(* The worker.                                                             *)
(***************************************************************************)
Init ==
    /\ pc = "new"
    /\ active = FALSE
    /\ tokenTask = Pending
    /\ cmdQ = <<>>
    /\ cmdOpen = TRUE
    /\ evQ = <<>>
    /\ evOpen = TRUE
    /\ session = [invalid |-> FALSE, shutdown |-> FALSE]
    /\ tickReady = FALSE
    /\ nextReq = 0
    /\ reply = <<>>
    /\ last = [src |-> "none"]
    /\ emitted = <<>>
    /\ triggers = 0
    /\ calls = <<>>
    /\ superseded = {}

\* run_loop is entered: the interval is created, its first tick is immediate.
Start ==
    /\ pc = "new"
    /\ pc' = "top"
    /\ tickReady' = TRUE
    /\ UNCHANGED <<active, tokenTask, cmdQ, cmdOpen, evQ, evOpen, session,
                   nextReq, reply, last, emitted, triggers, calls,
                   superseded>>

\* Mutant: the invalid session is reported but the loop is not left.
InvalidExitMissing(invalid) == FALSE

\* if self.session.is_invalid() { ...; break }
InvalidExit(invalid) == invalid

\* Top of the loop: if self.session.is_invalid() { send Stopped; break }
HealthCheck ==
    /\ pc = "top"
    /\ last' = [src |-> "check"]
    /\ triggers' = 0
    /\ calls' = <<>>
    /\ IF session.invalid
       THEN /\ emitted' = <<PlayerEv([kind |-> "Stopped"])>>
            /\ pc' = IF InvalidExit(session.invalid) THEN "done" ELSE "select"
       ELSE /\ emitted' = <<>>
            /\ pc' = "select"
    /\ UNCHANGED <<active, tokenTask, superseded>>
    /\ UNCHANGED envVars

\* cmd = self.commands.next() => match cmd { ... }
\* Ready when a command is queued or every sender is gone (None).
CommandBranch ==
    /\ pc = "select"
    /\ cmdQ # <<>> \/ ~cmdOpen
    /\ LET cmd == IF cmdQ # <<>> THEN Head(cmdQ) ELSE NoneMsg
           eff == CommandEffect(cmd)
       IN /\ cmdQ' = IF cmdQ # <<>> THEN Tail(cmdQ) ELSE cmdQ
          /\ calls' = eff.calls
          /\ emitted' = eff.emitted
          /\ tokenTask' = CommandTokenTask(cmd, tokenTask)
          /\ superseded' = IF cmd.kind = "RequestToken" /\ tokenTask.req # 0
                           THEN superseded \cup {tokenTask.req}
                           ELSE superseded
          /\ last' = [src |-> "cmd", val |-> cmd]
          \* Session::shutdown belongs to librespot: it may or may not leave
          \* the session invalid at once.
          /\ IF cmd.kind = "Shutdown"
             THEN \E inv \in {session.invalid, TRUE} :
                     session' = [invalid |-> inv, shutdown |-> TRUE]
             ELSE session' = session
          /\ active' = CommandActive(cmd, active)
          /\ pc' = IF CommandExit(cmd) THEN "done" ELSE "top"
    /\ triggers' = 0
    /\ UNCHANGED <<cmdOpen, evQ, evOpen, tickReady, nextReq, reply>>

\* Mutant: a closed channel reports exhaustion at once, queued events or not.
NextEventClosedFirst(q, open) ==
    IF q # <<>> /\ open THEN Head(q) ELSE NoneMsg

\* self.player_events.next(): the oldest queued event; None only when the
\* queue is empty (the branch is ready with an empty queue only once the
\* sender is gone).
NextEvent(q, open) ==
    IF q # <<>> THEN Head(q) ELSE NoneMsg

\* event = self.player_events.next() => match event { ... }
\* Ready when an event is queued or the sender is gone (None).  times are
\* the values SystemTime::now() may return to the handler.
EventBranchAt(times) ==
    /\ pc = "select"
    /\ evQ # <<>> \/ ~evOpen
    /\ \E now \in times :
        LET e == NextEvent(evQ, evOpen)
            eff == EventEffect(e, active, now)
        IN /\ evQ' = IF evQ # <<>> THEN Tail(evQ) ELSE evQ
           /\ emitted' = eff.emitted
           /\ active' = eff.active
           /\ pc' = IF eff.exit THEN "done" ELSE "top"
           /\ last' = [src |-> "event", val |-> e,
                       now |-> IF ReadsClock(e, active) THEN now ELSE NoTime]
    /\ triggers' = 0
    /\ calls' = <<>>
    /\ UNCHANGED <<tokenTask, cmdQ, cmdOpen, evOpen, session, tickReady,
                   nextReq, reply, superseded>>

EventBranch == EventBranchAt(Times)

\* Mutant: after a tick the worker waits again without the health check.
TickBranchSkipsCheck ==
    /\ pc = "select"
    /\ tickReady
    /\ tickReady' = FALSE
    /\ triggers' = TickTriggers(active)
    /\ emitted' = <<>>
    /\ calls' = <<>>
    /\ last' = [src |-> "tick"]
    /\ pc' = "select"
    /\ UNCHANGED <<active, tokenTask, cmdQ, cmdOpen, evQ, evOpen, session,
                   nextReq, reply, superseded>>

\* _ = ui_refresh.tick() => { if self.active { self.events.trigger(); } }
TickBranch ==
    /\ pc = "select"
    /\ tickReady
    /\ tickReady' = FALSE
    /\ triggers' = TickTriggers(active)
    /\ emitted' = <<>>
    /\ calls' = <<>>
    /\ last' = [src |-> "tick"]
    /\ pc' = "top"
    /\ UNCHANGED <<active, tokenTask, cmdQ, cmdOpen, evQ, evOpen, session,
                   nextReq, reply, superseded>>

\* Mutant: the finished task is left in the slot.
ResetTokenTaskKeeps(task) == task

\* self.token_task = Box::pin(future::pending())
ResetTokenTask(task) == Pending

\* _ = self.token_task.as_mut() => { self.token_task = pending() }
\* Polling the task once the fetch has resolved runs sender.send(result).unwrap():
\* the send fails, and unwrap panics, when the requester has dropped the
\* receiver by then (received is FALSE).
TokenTaskBranch ==
    /\ pc = "select"
    /\ tokenTask.req # 0
    /\ tokenTask.fetch # "running"
    /\ \E received \in BOOLEAN :
        /\ last' = [src |-> "task", val |-> tokenTask, sent |-> received]
        /\ IF received
           THEN /\ reply' = [reply EXCEPT ![tokenTask.req] = ResultOk(tokenTask.fetch)]
                /\ tokenTask' = ResetTokenTask(tokenTask)
                /\ pc' = "top"
           ELSE /\ reply' = reply
                /\ tokenTask' = tokenTask
                /\ pc' = "panicked"
    /\ emitted' = <<>>
    /\ triggers' = 0
    /\ calls' = <<>>
    /\ UNCHANGED <<active, cmdQ, cmdOpen, evQ, evOpen, session, tickReady,
                   nextReq, superseded>>

\* Mutant: the destructor leaves the player as it is.
DropCallsNothing == <<>>

\* fn drop(&mut self) { self.player.stop(); }
DropCalls == <<[op |-> "stop"]>>

\* impl Drop for Worker: runs when the owner drops the worker: after run_loop
\* returned or panicked, before it was ever polled, or after the run_loop
\* future was dropped while suspended in the select! (run_loop borrows the
\* worker, so its future can be cancelled at its only await point).
DropWorker ==
    /\ pc \in {"new", "select", "done", "panicked"}
    /\ pc' = "dropped"
    /\ calls' = DropCalls
    /\ emitted' = <<>>
    /\ triggers' = 0
    /\ last' = [src |-> "drop", from |-> pc]
    /\ UNCHANGED <<active, tokenTask, superseded>>
    /\ UNCHANGED envVars

(***************************************************************************)
(* The environment: controller, player, session, timer, token provider.    *)
(* The worker runs from a handler through the health check to the next     *)
(* select! without awaiting, so the environment acts while the worker      *)
(* waits in the select!, or before run_loop is entered.                    *)
(***************************************************************************)
Waiting == pc \in {"new", "select"}
InFlight == Len(cmdQ) + Len(evQ)

workerVars == <<pc, active, tokenTask, last, emitted, triggers, calls, superseded>>

\* The controller sends a command other than RequestToken.
SendCommand(cmds, cap) ==
    /\ Waiting /\ cmdOpen /\ InFlight < cap
    /\ \E c \in cmds : cmdQ' = Append(cmdQ, c)
    /\ UNCHANGED workerVars
    /\ UNCHANGED <<cmdOpen, evQ, evOpen, session, tickReady, nextReq, reply>>

\* The controller creates a oneshot channel and sends RequestToken(sender).
SendRequestToken(cap, maxReq) ==
    /\ Waiting /\ cmdOpen /\ InFlight < cap
    /\ nextReq < maxReq
    /\ nextReq' = nextReq + 1
    /\ reply' = Append(reply, "empty")
    /\ cmdQ' = Append(cmdQ, [kind |-> "RequestToken", req |-> nextReq + 1])
    /\ UNCHANGED workerVars
    /\ UNCHANGED <<cmdOpen, evQ, evOpen, session, tickReady>>

\* The last command sender is dropped.
CloseCommands ==
    /\ Waiting /\ cmdOpen
    /\ cmdOpen' = FALSE
    /\ UNCHANGED workerVars
    /\ UNCHANGED <<cmdQ, evQ, evOpen, session, tickReady, nextReq, reply>>

\* The player sends an event.
SendEvent(evs, cap) ==
    /\ Waiting /\ evOpen /\ InFlight < cap
    /\ \E e \in evs : evQ' = Append(evQ, e)
    /\ UNCHANGED workerVars
    /\ UNCHANGED <<cmdQ, cmdOpen, evOpen, session, tickReady, nextReq, reply>>

\* The player-event sender is dropped.
CloseEvents ==
    /\ Waiting /\ evOpen
    /\ evOpen' = FALSE
    /\ UNCHANGED workerVars
    /\ UNCHANGED <<cmdQ, cmdOpen, evQ, session, tickReady, nextReq, reply>>

\* The session is invalidated (connection lost, or shut down elsewhere).
SessionInvalidate ==
    /\ Waiting /\ ~session.invalid
    /\ session' = [session EXCEPT !.invalid = TRUE]
    /\ UNCHANGED workerVars
    /\ UNCHANGED <<cmdQ, cmdOpen, evQ, evOpen, tickReady, nextReq, reply>>

\* Mutant: the interval is armed only while a track is playing.
TimerElapseOnlyActive ==
    /\ pc = "select" /\ ~tickReady /\ active
    /\ tickReady' = TRUE
    /\ UNCHANGED <<pc, active, tokenTask, last, emitted, triggers, calls, superseded>>
    /\ UNCHANGED <<cmdQ, cmdOpen, evQ, evOpen, session, nextReq, reply>>

\* 400 ms have passed since the last tick was delivered.
TimerElapse ==
    /\ pc = "select" /\ ~tickReady
    /\ tickReady' = TRUE
    /\ UNCHANGED workerVars
    /\ UNCHANGED <<cmdQ, cmdOpen, evQ, evOpen, session, nextReq, reply>>

\* The token provider answers the fetch held in the slot.
FetchResolve ==
    /\ pc = "select"
    /\ tokenTask.req # 0 /\ tokenTask.fetch = "running"
    /\ \E res \in {"Ok", "Err"} : tokenTask' = [tokenTask EXCEPT !.fetch = res]
    /\ UNCHANGED <<pc, active, last, emitted, triggers, calls, superseded>>
    /\ UNCHANGED envVars

Worker ==
    \/ Start
    \/ HealthCheck
    \/ CommandBranch
    \/ EventBranch
    \/ TickBranch
    \/ TokenTaskBranch
    \/ DropWorker

Collaborators ==
    \/ CloseCommands
    \/ CloseEvents
    \/ SessionInvalidate
    \/ TimerElapse
    \/ FetchResolve

\* Every kind of message, at most MaxQueue of them waiting.
Next ==
    \/ Worker
    \/ Collaborators
    \/ SendCommand(PlainCommands, MaxQueue)
    \/ SendRequestToken(MaxQueue, MaxReq)
    \/ SendEvent(PlayerEvents, MaxQueue)

Spec == Init /\ [][Next]_vars

\* Fewer kinds of message, more of them waiting.
NextDeep ==
    \/ Worker
    \/ Collaborators
    \/ SendCommand(DeepCommands, DeepQueue)
    \/ SendRequestToken(DeepQueue, DeepReq)
    \/ SendEvent(DeepEvents, DeepQueue)

SpecDeep == Init /\ [][NextDeep]_vars

\* Playing events with positions over the whole u32 range, handled at clock
\* values from the epoch onwards.
NextClock ==
    \/ Start
    \/ HealthCheck
    \/ CommandBranch
    \/ EventBranchAt(ClockTimes)
    \/ TickBranch
    \/ TokenTaskBranch
    \/ DropWorker
    \/ Collaborators
    \/ SendRequestToken(MaxQueue, MaxReq)
    \/ SendEvent(ClockEvents, MaxQueue)

SpecClock == Init /\ [][NextClock]_vars

(***************************************************************************)
(* Vocabulary of the properties.                                           *)
(***************************************************************************)
Stopped == PlayerEv([kind |-> "Stopped"])
FinishedTrack == PlayerEv([kind |-> "FinishedTrack"])

\* This step is the select! handing one input of source src to its handler.
Dispatches(src) == pc = "select" /\ pc' # "select" /\ last'.src = src
\* This step dispatches a queued command (not the None of an exhausted channel).
DispatchesCommand == Dispatches("cmd") /\ last'.val.kind # "None"
\* This step is the event branch observing the exhausted channel.
ObservesEventsExhausted == Dispatches("event") /\ last'.val.kind = "None"
\* The step leaves the worker's own state and both queues alone.
NothingDispatched ==
    /\ cmdQ' = cmdQ /\ evQ' = evQ
    /\ active' = active /\ tokenTask' = tokenTask
    /\ emitted' = <<>> /\ triggers' = 0

(***************************************************************************)
(* C1 (as stated): from the moment the backend-event channel is closed and *)
(* empty, no queued command is dispatched before run_loop terminates,      *)
(* whatever the select picks.                                              *)
(***************************************************************************)
C1_NoCommandOnceEventsClosed ==
    [][(~evOpen /\ evQ = <<>>) => ~DispatchesCommand]_vars

(***************************************************************************)
(* C1 (amended): once the select picks the backend-event branch and        *)
(* observes the channel exhausted, run_loop terminates in that iteration   *)
(* with no backend call, no outward event and no slot replacement, and no  *)
(* command still queued is dispatched afterwards; until that pick the      *)
(* select may dispatch queued commands.                                    *)
(***************************************************************************)
C1_ExhaustionEndsLoop ==
    [][/\ ObservesEventsExhausted =>
            /\ ~evOpen /\ evQ = <<>>
            /\ pc' = "done"
            /\ calls' = <<>>
            /\ NothingDispatched
       /\ (pc = "done" /\ last.src = "event") =>
            /\ pc' = "dropped"
            /\ cmdQ' = cmdQ /\ tokenTask' = tokenTask
            /\ calls' = <<[op |-> "stop"]>>]_vars

C1_Witness ==
    /\ pc = "done" /\ last.src = "event" /\ last.val.kind = "None"
    /\ cmdQ # <<>>

(***************************************************************************)
(* C2 (as stated): after a Shutdown command has been processed, run_loop   *)
(* terminates only by the backend-event channel closing.                   *)
(***************************************************************************)
C2_ShutdownEndsOnlyByEventClose ==
    (pc = "done" /\ session.shutdown) =>
        (last.src = "event" /\ last.val.kind = "None")

(***************************************************************************)
(* C2 (amended): processing Shutdown calls player.stop and then            *)
(* session.shutdown and does not itself end the loop: the worker goes on   *)
(* to the next health check and keeps dispatching inputs while the session *)
(* is not reported invalid; afterwards run_loop terminates by the health   *)
(* check finding the session invalid or by the backend-event channel being *)
(* exhausted.                                                              *)
(***************************************************************************)
C2_ShutdownIsAdvisory ==
    [][/\ (Dispatches("cmd") /\ last'.val.kind = "Shutdown") =>
            /\ calls' = <<[op |-> "stop"], [op |-> "session.shutdown"]>>
            /\ emitted' = <<>>
            /\ pc' = "top"
       /\ (session.shutdown /\ pc = "top" /\ ~session.invalid) => pc' = "select"
       /\ (session.shutdown /\ pc # "done" /\ pc' = "done") =>
            \/ pc = "top" /\ session.invalid /\ emitted' = <<Stopped>>
            \/ pc = "select" /\ ~evOpen /\ evQ = <<>> /\ last'.src = "event"]_vars

C2_Witness ==
    /\ session.shutdown /\ pc = "top"
    /\ last.src = "event" /\ last.val.kind = "Playing"

(***************************************************************************)
(* C3: when a RequestToken is processed before the fetch of the previous   *)
(* one has been delivered, the earlier request's reply channel never       *)
(* receives a value, and the one reply sent for the two goes to the later  *)
(* request, carrying the result of its fetch.                              *)
(***************************************************************************)
Replied == {r \in 1..nextReq : reply[r] # "empty"}

C3_LatestRequestWins ==
    /\ \A r \in superseded : reply[r] = "empty"
    /\ \A r \in superseded :
          (pc = "top" /\ last.src = "task" /\ last.val.req = r + 1) =>
              /\ reply[r + 1] = (IF last.val.fetch = "Ok" THEN "Some" ELSE "None")
              /\ Replied \cap {r, r + 1} = {r + 1}
    /\ Cardinality(Replied) + Cardinality(superseded) <= nextReq

C3_Witness ==
    /\ 1 \in superseded
    /\ reply[2] # "empty"
    /\ pc = "top" /\ last.src = "task"

(***************************************************************************)
(* C4: when the health check at the top of an iteration finds the session  *)
(* invalid, the worker sends exactly one Stopped and terminates; the       *)
(* commands and backend events still queued are never dispatched.          *)
(***************************************************************************)
C4_InvalidSessionStops ==
    [][/\ (pc = "top" /\ session.invalid) =>
            /\ pc' = "done"
            /\ emitted' = <<Stopped>>
            /\ calls' = <<>> /\ triggers' = 0
            /\ cmdQ' = cmdQ /\ evQ' = evQ
            /\ active' = active /\ tokenTask' = tokenTask
       /\ (pc = "done" /\ last.src = "check") =>
            /\ pc' = "dropped"
            /\ NothingDispatched]_vars

C4_Witness ==
    /\ pc = "done" /\ last.src = "check"
    /\ emitted = <<Stopped>>
    /\ cmdQ # <<>> /\ evQ # <<>>

(***************************************************************************)
(* C5: active is true exactly when the last Playing / Paused / Stopped     *)
(* event the worker processed was Playing: it is false before run_loop has *)
(* dispatched anything, a processed Playing sets it, a processed Paused or *)
(* Stopped clears it whatever it was, and every other backend event, and   *)
(* every other step, leaves it as it is.                                   *)
(***************************************************************************)
C5_ActiveFollowsPlayer ==
    /\ [](pc = "new" => ~active)
    /\ [][IF Dispatches("event") /\ last'.val.kind = "Playing" THEN active'
          ELSE IF Dispatches("event") /\ last'.val.kind \in {"Paused", "Stopped"}
          THEN ~active'
          ELSE active' = active]_vars

C5_Witness ==
    /\ pc = "top" /\ last.src = "event" /\ last.val.kind = "Paused"
    /\ ~active /\ last.val.pos = U32(2500)

(***************************************************************************)
(* C6: only a processed backend event changes active: every command (and   *)
(* the exhausted command channel), a timer tick and a token-task           *)
(* completion leave it unchanged.                                          *)
(***************************************************************************)
C6_OnlyEventsChangeActive ==
    [][/\ active' # active => Dispatches("event")
       /\ (Dispatches("cmd") \/ Dispatches("tick") \/ Dispatches("task")) =>
            active' = active]_vars

C6_Witness ==
    /\ pc = "top" /\ last.src = "cmd" /\ last.val.kind = "Pause"
    /\ active

(***************************************************************************)
(* C7: a processed Load either sends exactly one FinishedTrack and does    *)
(* not call player.load (URI unparsable, or parsed to an id of unknown     *)
(* type), or calls player.load once with the parsed id and the command's   *)
(* start_playing and position_ms and sends no event.                       *)
(***************************************************************************)
C7_LoadOutcome ==
    (pc = "top" /\ last.src = "cmd" /\ last.val.kind = "Load") =>
        LET c == last.val
            parsed == FromUri(c.uri)
            playable == parsed.ok /\ parsed.id.item_type # "Unknown"
        IN IF playable
           THEN /\ calls = <<[op |-> "load", id |-> parsed.id,
                              start |-> c.start, pos |-> c.pos]>>
                /\ emitted = <<>>
           ELSE /\ emitted = <<FinishedTrack>>
                /\ calls = <<>>

C7_Witness ==
    /\ pc = "top" /\ last.src = "cmd" /\ last.val.kind = "Load"
    /\ last.val.uri = "spotify:bogus:B"
    /\ emitted = <<FinishedTrack>>

(***************************************************************************)
(* C8: a processed Seeked(p) or PositionCorrection(p) sends exactly one    *)
(* event and leaves active unchanged: Playing(now - p) when active,        *)
(* Paused(p) when not.  The kind sent is fixed by the flag the handler     *)
(* leaves behind, so the same event again yields the same kind of event    *)
(* and the same worker state.                                              *)
(***************************************************************************)
\* t + d, for a SystemTime t and a Duration d.
TimePlus(t, d) ==
    IF t.nanos + d.nanos >= 1000000000
    THEN [secs |-> t.secs + d.secs + 1, nanos |-> t.nanos + d.nanos - 1000000000]
    ELSE [secs |-> t.secs + d.secs, nanos |-> t.nanos + d.nanos]

\* The Duration d is ms milliseconds.
IsMillis(d, ms) ==
    LET rest == (d.secs % 65536) * 1000 + d.nanos \div 1000000
    IN /\ d.nanos \in 0..999999999
       /\ d.nanos % 1000000 = 0
       /\ ms.hi = (d.secs \div 65536) * 1000 + rest \div 65536
       /\ ms.lo = rest % 65536

SeekKinds == {"Seeked", "PositionCorrection"}

C8_SeekedKeepsState ==
    /\ [][(Dispatches("event") /\ last'.val.kind \in SeekKinds) =>
            /\ active' = active /\ tokenTask' = tokenTask
            /\ Len(emitted') = 1 /\ calls' = <<>> /\ triggers' = 0
            /\ emitted'[1].bus = "Player"
            /\ emitted'[1].ev.kind = (IF active' THEN "Playing" ELSE "Paused")
            /\ active =>
                \E d \in {DurationFromMillis(q) : q \in Positions} :
                    /\ IsMillis(d, last'.val.pos)
                    /\ last'.now \in Times
                    /\ TimePlus(emitted'[1].ev.start, d) = last'.now
            /\ ~active => IsMillis(emitted'[1].ev.pos, last'.val.pos)]_vars
    /\ []((pc = "top" /\ last.src = "event" /\ last.val.kind \in SeekKinds) =>
            \A t \in Times :
                LET again == SeekedEffect(last.val, active, t)
                IN /\ again.active = active
                   /\ Len(again.emitted) = 1
                   /\ again.emitted[1].ev.kind = emitted[1].ev.kind)

C8_Witness ==
    /\ pc = "top" /\ last.src = "event" /\ last.val.kind = "PositionCorrection"
    /\ last.val.pos = U32(2500)
    /\ active /\ emitted[1].ev.kind = "Playing"

(***************************************************************************)
(* C9: a dispatched timer tick calls events.trigger() exactly once when    *)
(* active is true and not at all when it is false; it sends no event,      *)
(* calls nothing on the player, mixer or session and leaves active and the *)
(* task slot alone.                                                        *)
(***************************************************************************)
C9_TickRefreshesWhenActive ==
    [][Dispatches("tick") =>
        /\ triggers' = (IF active THEN 1 ELSE 0)
        /\ emitted' = <<>> /\ calls' = <<>>
        /\ active' = active /\ tokenTask' = tokenTask
        /\ pc' = "top"]_vars

C9_Witness ==
    /\ pc = "top" /\ last.src = "tick"
    /\ active /\ triggers = 1

(***************************************************************************)
(* C10: the exhausted command channel is not fatal: observing it does not  *)
(* end the loop, sends no event, calls nothing and changes no worker       *)
(* state; with the channel exhausted the worker still dispatches a queued  *)
(* backend event, a due tick and a finished token task, unless the loop    *)
(* ends for another reason first (fair selection among ready branches).    *)
(***************************************************************************)
CommandsExhausted == ~cmdOpen /\ cmdQ = <<>> /\ pc \in {"top", "select"}
Ended == pc \in {"done", "panicked", "dropped"}
JustDispatched(src) == pc \in {"top", "done", "panicked"} /\ last.src = src

C10_CommandExhaustionNotFatal ==
    /\ [][(Dispatches("cmd") /\ last'.val.kind = "None") =>
            /\ pc' = "top"
            /\ emitted' = <<>> /\ calls' = <<>> /\ triggers' = 0
            /\ active' = active /\ tokenTask' = tokenTask
            /\ evQ' = evQ /\ session' = session /\ tickReady' = tickReady]_vars
    /\ (CommandsExhausted /\ evQ # <<>>) ~> (JustDispatched("event") \/ Ended)
    /\ (CommandsExhausted /\ tickReady) ~> (JustDispatched("tick") \/ Ended)
    /\ (CommandsExhausted /\ tokenTask.req # 0 /\ tokenTask.fetch # "running")
            ~> (JustDispatched("task") \/ Ended)

C10_Witness ==
    /\ pc = "top" /\ last.src = "event" /\ last.val.kind = "Playing"
    /\ ~cmdOpen /\ cmdQ = <<>>
    /\ tickReady /\ tokenTask.req # 0

(***************************************************************************)
(* C11: the iteration that observes the backend-event channel exhausted    *)
(* ends the loop at once, sends no outward event (no Stopped, no Paused)   *)
(* and leaves active as it was; nothing is sent afterwards either, so when *)
(* active was true the last state change the consumers saw stays Playing.  *)
(***************************************************************************)
C11_ExhaustionIsSilent ==
    [][/\ ObservesEventsExhausted =>
            /\ pc' = "done"
            /\ emitted' = <<>> /\ triggers' = 0
            /\ active' = active
       /\ (pc = "done" /\ last.src = "event") =>
            /\ emitted' = <<>> /\ triggers' = 0
            /\ active' = active]_vars

C11_Witness ==
    /\ pc = "dropped" /\ last.src = "drop" /\ last.from = "done"
    /\ ~evOpen /\ evQ = <<>> /\ ~session.invalid
    /\ active /\ emitted = <<>>

(***************************************************************************)
(* C12: the destructor calls player.stop exactly once, whether run_loop    *)
(* ended on an invalid session, on the exhausted backend-event channel,    *)
(* was cancelled while waiting for input, or was never entered; it sends   *)
(* no event, and no call on the player, mixer or session follows it.       *)
(***************************************************************************)
C12_DropStopsPlayer ==
    /\ [][(pc # "dropped" /\ pc' = "dropped") =>
            /\ pc \in {"new", "select", "done", "panicked"}
            /\ calls' = <<[op |-> "stop"]>>
            /\ emitted' = <<>> /\ triggers' = 0
            /\ active' = active /\ tokenTask' = tokenTask]_vars
    /\ [](pc = "dropped" => /\ calls = <<[op |-> "stop"]>>
                            /\ ~ENABLED Worker)
    /\ [](pc = "done" => ENABLED DropWorker)
    /\ [](pc = "new" => ENABLED DropWorker)
    /\ [](pc = "select" => ENABLED DropWorker)

C12_Witness ==
    /\ pc = "dropped" /\ last.src = "drop" /\ last.from = "done"
    /\ evOpen /\ session.invalid
    /\ calls = <<[op |-> "stop"]>>

(***************************************************************************)
(* C13: a processed Playing(position_ms) sends exactly one Playing event,  *)
(* whose start is the time the handler read minus position_ms, and leaves  *)
(* active true.  position_ms is taken at its full value over the whole u32 *)
(* range (0, 2^31 and u32::MAX included): adding it back to the start      *)
(* gives the clock value again, and when the clock is at least             *)
(* position_ms after the epoch the start is not before the epoch.          *)
(***************************************************************************)
\* The time t is at least the duration d after the epoch.
NotBefore(t, d) == t.secs > d.secs \/ (t.secs = d.secs /\ t.nanos >= d.nanos)

C13_PlayingStart ==
    [][(Dispatches("event") /\ last'.val.kind = "Playing") =>
        /\ Len(emitted') = 1
        /\ emitted'[1].bus = "Player" /\ emitted'[1].ev.kind = "Playing"
        /\ active' /\ pc' = "top"
        /\ calls' = <<>> /\ triggers' = 0
        /\ \E d \in {DurationFromMillis(q) : q \in ClockPositions} :
            LET start == emitted'[1].ev.start
            IN /\ IsMillis(d, last'.val.pos)
               /\ start.nanos \in 0..999999999
               /\ TimePlus(start, d) = last'.now
               /\ NotBefore(last'.now, d) => start.secs >= 0]_vars

C13_Witness ==
    /\ pc = "top" /\ last.src = "event" /\ last.val.kind = "Playing"
    /\ last.val.pos = U32Max
    /\ last.now = [secs |-> 4294967, nanos |-> 295000000]
    /\ emitted = <<PlayerEv([kind |-> "Playing",
                             start |-> [secs |-> 0, nanos |-> 0]])>>
    /\ active

(***************************************************************************)
(* C14: a processed Preload sends no outward event and leaves active and   *)
(* the task slot alone; it calls player.preload exactly once, with the     *)
(* parsed id, when the URI parses to an id (whatever its type), and calls  *)
(* nothing when the URI does not parse.                                    *)
(***************************************************************************)
C14_PreloadOutcome ==
    [][(Dispatches("cmd") /\ last'.val.kind = "Preload") =>
        /\ emitted' = <<>> /\ triggers' = 0
        /\ active' = active /\ tokenTask' = tokenTask
        /\ pc' = "top"
        /\ calls' =
            CASE last'.val.uri = "spotify:track:A" ->
                    <<[op |-> "preload", id |-> [item_type |-> "Track", id |-> "A"]]>>
              [] last'.val.uri = "spotify:bogus:B" ->
                    <<[op |-> "preload", id |-> [item_type |-> "Unknown", id |-> "B"]]>>
              [] OTHER -> <<>>]_vars

C14_Witness ==
    /\ pc = "top" /\ last.src = "cmd" /\ last.val.kind = "Preload"
    /\ last.val.uri = "garbage"
    /\ calls = <<>> /\ emitted = <<>>

(***************************************************************************)
(* C15 (as stated): for a RequestToken that is not superseded, once its    *)
(* fetch has completed the task-completion branch is eventually dispatched *)
(* for it and sends the result on its reply channel, whatever else is      *)
(* dispatched in between.                                                  *)
(***************************************************************************)
\* The fetch of request r sits completed in the slot of the running worker,
\* not yet dispatched.
FetchCompleted(r) ==
    /\ pc \in {"top", "select"}
    /\ tokenTask.req = r /\ tokenTask.fetch # "running"
\* The last step was the task-completion branch sending the result of r.
ReplySent(r) == last.src = "task" /\ last.val.req = r

C15_ReplyAlwaysDelivered ==
    \A r \in 1..MaxReq : FetchCompleted(r) ~> (ReplySent(r) \/ r \in superseded)

(***************************************************************************)
(* C15 (amended): a reply channel receives at most one value, the result   *)
(* of its own request's fetch, sent by the task-completion branch; the     *)
(* fetch in flight survives every other input that is dispatched (only a   *)
(* later RequestToken replaces it); and once the fetch has completed the   *)
(* result is eventually sent, and received when the receiver is alive,     *)
(* unless the request is superseded or run_loop ends first (invalid        *)
(* session found by the health check, exhausted backend-event channel, or  *)
(* the worker dropped while it waits).                                     *)
(***************************************************************************)
C15_ReplyDeliveredWhileRunning ==
    /\ [][\A r \in 1..nextReq :
            /\ reply[r] # "empty" => reply'[r] = reply[r]
            /\ reply'[r] # reply[r] =>
                /\ Dispatches("task") /\ tokenTask.req = r
                /\ reply'[r] = (IF tokenTask.fetch = "Ok" THEN "Some" ELSE "None")
                /\ r \notin superseded]_vars
    /\ [][(\/ Dispatches("cmd") /\ last'.val.kind # "RequestToken"
           \/ Dispatches("event")
           \/ Dispatches("tick")) => tokenTask' = tokenTask]_vars
    /\ [][(Dispatches("task") /\ last'.sent) =>
            /\ reply'[tokenTask.req] # "empty"
            /\ tokenTask' = Pending]_vars
    /\ \A r \in 1..MaxReq :
            FetchCompleted(r) ~>
                (ReplySent(r) \/ r \in superseded \/ pc \in {"done", "dropped"})

C15_Witness ==
    /\ pc = "top" /\ last.src = "task" /\ last.sent
    /\ last.val = [req |-> 1, fetch |-> "Err"]
    /\ reply[1] = "None"
    /\ tokenTask = Pending
    /\ active /\ ~cmdOpen

(***************************************************************************)
(* C16: once the session is invalid the running worker eventually leaves   *)
(* the loop, even if no command and no backend event ever arrives and      *)
(* active is false, because the interval keeps bringing the loop back to   *)
(* the health check; it leaves through the health check, with one Stopped  *)
(* sent, unless the backend-event channel is closed or a token fetch is in *)
(* the slot, which can end the loop first, or the owner drops the worker   *)
(* while it waits.                                                         *)
(***************************************************************************)
Running == pc \in {"top", "select"}
StoppedByCheck == pc = "done" /\ last.src = "check" /\ emitted = <<Stopped>>

C16_InvalidSessionEndsLoop ==
    /\ (session.invalid /\ Running) ~> (pc \in {"done", "panicked", "dropped"})
    /\ (session.invalid /\ Running) ~>
            (StoppedByCheck \/ ~evOpen \/ tokenTask.req # 0 \/ pc = "dropped")
    /\ [](session.invalid => [](session.invalid))

C16_Witness ==
    /\ StoppedByCheck
    /\ ~active /\ ~tickReady
    /\ cmdQ = <<>> /\ cmdOpen /\ evQ = <<>> /\ evOpen
    /\ nextReq = 0 /\ tokenTask = Pending

(***************************************************************************)
(* C17: every iteration is one health check followed by the dispatch of    *)
(* exactly one input from exactly one source: the check consumes nothing,  *)
(* a dispatch takes one command, one backend event, one tick or one task   *)
(* completion and leaves the other sources as they are, and the worker     *)
(* waits for input only straight after a check that found the session      *)
(* valid.  So once the session is invalid at most one more input is        *)
(* dispatched: the step after it is the check that ends the loop, and      *)
(* nothing is dispatched after the loop has ended or the waiting worker    *)
(* has been dropped.                                                       *)
(***************************************************************************)
\* What the step took from the four sources, given the branch it ran.
TakesOneInput(src) ==
    /\ cmdQ' = (IF src = "cmd" /\ cmdQ # <<>> THEN Tail(cmdQ) ELSE cmdQ)
    /\ evQ' = (IF src = "event" /\ evQ # <<>> THEN Tail(evQ) ELSE evQ)
    /\ tickReady' = (IF src = "tick" THEN FALSE ELSE tickReady)
    /\ src = "cmd" => cmdQ # <<>> \/ ~cmdOpen
    /\ src = "event" => evQ # <<>> \/ ~evOpen
    /\ src = "tick" => tickReady
    /\ src = "task" => tokenTask.req # 0 /\ tokenTask.fetch # "running"
    /\ src # "task" => reply' = reply
    /\ src \in {"event", "tick"} => tokenTask' = tokenTask

C17_OneInputPerCheck ==
    /\ [][(pc = "top") =>
            /\ last'.src = "check"
            /\ pc' = (IF session.invalid THEN "done" ELSE "select")
            /\ cmdQ' = cmdQ /\ evQ' = evQ /\ tickReady' = tickReady
            /\ tokenTask' = tokenTask /\ reply' = reply]_vars
    /\ [][(pc = "select") =>
            IF last' = last
            THEN pc' = "select" /\ emitted' = emitted /\ calls' = calls
            ELSE \/ /\ pc' \in {"top", "done", "panicked"}
                    /\ last'.src \in {"cmd", "event", "tick", "task"}
                    /\ TakesOneInput(last'.src)
                 \/ /\ pc' = "dropped" /\ last'.src = "drop"
                    /\ TakesOneInput("drop")
                    /\ tokenTask' = tokenTask]_vars
    /\ [][(pc \in {"done", "panicked", "dropped"}) =>
            /\ cmdQ' = cmdQ /\ evQ' = evQ /\ tickReady' = tickReady
            /\ tokenTask' = tokenTask /\ reply' = reply]_vars
    /\ [](pc = "select" => last.src = "check")

\* The session was invalidated while the worker waited; one event has been
\* dispatched since, a command is still queued, and the check comes next.
C17_Witness ==
    /\ pc = "top" /\ session.invalid /\ ~session.shutdown
    /\ last.src = "event" /\ last.val.kind = "Playing"
    /\ cmdQ # <<>>

(***************************************************************************)
(* C18: the slot holds one future: the never-completing placeholder, from  *)
(* construction on, or the fetch of the latest RequestToken.  The          *)
(* task-completion branch is never ready for the placeholder; it is        *)
(* dispatched only for a fetch that a RequestToken installed and that has  *)
(* completed, at most once for each, and its handler puts the placeholder  *)
(* back, which only a later RequestToken replaces.                         *)
(***************************************************************************)
C18_SlotDiscipline ==
    /\ [](pc = "new" => tokenTask = Pending)
    /\ [](\/ tokenTask = Pending
          \/ /\ tokenTask.req \in 1..nextReq
             /\ tokenTask.fetch \in {"running", "Ok", "Err"}
             /\ reply[tokenTask.req] = "empty" \/ pc \in {"panicked", "dropped"})
    /\ [](tokenTask = Pending => ~ENABLED TokenTaskBranch)
    /\ [][Dispatches("task") =>
            /\ tokenTask.req \in 1..nextReq
            /\ tokenTask.fetch \in {"Ok", "Err"}
            /\ reply[tokenTask.req] = "empty"
            /\ pc' = "top" => tokenTask' = Pending /\ reply'[tokenTask.req] # "empty"
            /\ pc' # "top" => pc' = "panicked"]_vars
    /\ [][(tokenTask = Pending /\ tokenTask' # Pending) =>
            /\ Dispatches("cmd") /\ last'.val.kind = "RequestToken"
            /\ tokenTask' = [req |-> last'.val.req, fetch |-> "running"]
            /\ reply[last'.val.req] = "empty"]_vars

C18_Witness ==
    /\ pc = "top" /\ last.src = "task" /\ last.val.req = 2
    /\ tokenTask = Pending
    /\ reply[1] # "empty" /\ reply[2] # "empty"

(***************************************************************************)
(* C19: run_loop ends only by the health check finding the session invalid *)
(* or by the backend-event branch observing its channel exhausted; nothing *)
(* else ends it.  In particular a dispatched task completion never ends    *)
(* it: whether or not the receiver of the reply is still there, the worker *)
(* goes on to the next iteration with the placeholder back in the slot.    *)
(***************************************************************************)
C19_OnlyTwoWaysOut ==
    /\ pc \in {"done", "panicked"} =>
        /\ pc = "done"
        /\ \/ last.src = "check" /\ session.invalid
           \/ last.src = "event" /\ last.val.kind = "None"
    /\ (last.src = "task" /\ pc # "dropped") =>
        /\ pc = "top"
        /\ tokenTask = Pending
    /\ (pc = "dropped") => last.from \in {"new", "select", "done"}

(***************************************************************************)
(* C20: backend events are dispatched in the order they were sent and none *)
(* is lost when the channel is closed: the event queue changes only by an  *)
(* event being appended or its head being dispatched, the dispatched head  *)
(* is translated to its outward event, and exhaustion is observed, and the *)
(* loop ended by it, only with the queue empty.  Events still queued are   *)
(* left undispatched only when the loop ends another way (health check, or *)
(* the task branch failing).                                               *)
(***************************************************************************)
\* The kind of outward event a backend event is translated to.
OutwardKind(e, act) ==
    CASE e.kind = "Playing" -> "Playing"
      [] e.kind = "Paused" -> "Paused"
      [] e.kind \in SeekKinds -> IF act THEN "Playing" ELSE "Paused"
      [] e.kind = "Stopped" -> "Stopped"
      [] e.kind = "EndOfTrack" -> "FinishedTrack"
      [] e.kind = "TimeToPreloadNextTrack" -> "PreloadTrackRequest"

C20_EventsInOrderNoneLost ==
    /\ [][evQ' # evQ =>
            \/ /\ Dispatches("event")
               /\ evQ # <<>> /\ evQ' = Tail(evQ)
               /\ last'.val = Head(evQ)
               /\ pc' = "top"
               /\ Len(emitted') = 1
               /\ emitted'[1].ev.kind = OutwardKind(Head(evQ), active)
            \/ /\ pc' = pc /\ evOpen
               /\ Len(evQ') = Len(evQ) + 1
               /\ SubSeq(evQ', 1, Len(evQ)) = evQ]_vars
    /\ [][ObservesEventsExhausted => evQ = <<>> /\ ~evOpen /\ evQ' = evQ]_vars
    /\ [][(pc # "done" /\ pc' = "done" /\ evQ # <<>>) =>
            pc = "top" /\ session.invalid]_vars
    /\ []((pc = "done" /\ last.src = "event") => evQ = <<>>)

C20_Witness ==
    /\ pc = "top" /\ last.src = "event" /\ last.val.kind = "Playing"
    /\ ~evOpen /\ Len(evQ) = 1 /\ evQ[1].kind = "Paused"
    /\ ~session.invalid

(***************************************************************************)
(* The specification with the fairness the runtime gives: the worker task  *)
(* is scheduled, and select! picks at random among the ready branches, so  *)
(* a branch that is ready again and again is picked; time passes, so the   *)
(* interval becomes ready again 400 ms after each tick.                    *)
(***************************************************************************)
Fairness ==
    /\ WF_vars(Start)
    /\ WF_vars(TimerElapse)
    /\ WF_vars(HealthCheck)
    /\ SF_vars(CommandBranch)
    /\ SF_vars(EventBranch)
    /\ SF_vars(TickBranch)
    /\ SF_vars(TokenTaskBranch)

NextFair ==
    \/ Worker
    \/ Collaborators
    \/ SendCommand(FairCommands, MaxQueue)
    \/ SendRequestToken(MaxQueue, MaxReq)
    \/ SendEvent(FairEvents, MaxQueue)

FairSpec == Init /\ [][NextFair]_vars /\ Fairness

====
